---- MODULE Spec2Model ----
(***************************************************************************)
(* Model of the snakery scene loop (internal/scene/scene.go), the SDL2     *)
(* Present transaction (pkg/grafio/sdl2.go) and the process driver         *)
(* (main.go).                                                              *)
(*                                                                         *)
(* Two tasks: the driver (main.run) and the loop goroutine started by      *)
(* Scene.Run.  They meet on two unbuffered channels, events and errc.  A   *)
(* loop iteration touches only state owned by the loop task, so one        *)
(* iteration is one action; the calls it makes are recorded, in order, in  *)
(* the variable calls.                                                     *)
(***************************************************************************)
EXTENDS Integers, Sequences, FiniteSets, TLC

\* ---------------------------------------------------------------- values

GameState == {"MenuScreen", "SnakeRunning", "DeadSnake"}

Objects == {"menuScreen", "snake", "apple", "score", "deadScreen"}

\* The object package fixes which object types implement Update and
\* HandleEvent; the scene discovers it by type switch.  The assignments
\* examined: none, the menu screen and the snake only, every object but the
\* snake, and every object.
UpdateableSets ==
    {{}, {"menuScreen", "snake"}, {"menuScreen", "apple", "score", "deadScreen"}, Objects}

HandleableSets ==
    {{"menuScreen", "snake"}, {"apple", "score", "deadScreen"}, Objects}

PRESSED == 1
RELEASED == 0
K_ESCAPE == 27
K_SPACE == 32

QuitEvent == [type |-> "QuitEvent", State |-> 0, Sym |-> 0]

KeyboardEvent(st, sym) == [type |-> "KeyboardEvent", State |-> st, Sym |-> sym]

OtherEvent == [type |-> "MouseMotionEvent", State |-> 0, Sym |-> 0]

NoEvent == [type |-> "none", State |-> 0, Sym |-> 0]

\* the events sdl.WaitEvent may hand to the driver
Events ==
    {QuitEvent, OtherEvent}
        \cup {KeyboardEvent(st, sym) : st \in {PRESSED, RELEASED}, sym \in {K_ESCAPE, K_SPACE}}

\* errors are chains of messages, outermost first; nil is the empty chain
nil == <<>>

Wrap(err, msg) == <<msg>> \o err

Range(seq) == {seq[i] : i \in 1..Len(seq)}

\* one recorded call of a loop iteration
Call(op, obj, res) == [op |-> op, obj |-> obj, res |-> res]

\* the files of res/fonts and res/textures
FontNames == {"ubuntu.ttf", "mono.ttf"}

TextureNames == {"apple.png", "snake.png"}

FontUbuntu == "ubuntu.ttf"

\* how many events are numbered
MaxEvents == 3

NoDrawCall == [op |-> "none", arg |-> "-", err |-> nil, copy |-> FALSE]

\* ------------------------------------------------------------------ state

VARIABLES
    state,        \* Scene.state
    paints,       \* Scene.paints
    updateable,   \* the objects whose type implements object.Updateable
    handleable,   \* the objects whose type implements object.Handleable
    loopPc,       \* loop task: "select" or "send" (blocked in errc <- err)
    err,          \* the render error the loop task holds
    ticker,       \* TRUE when the ticker channel holds a tick
    driverPc,     \* driver task: "wait", "select" or "returned"
    driverEv,     \* the event the driver offers on the events channel
    runErr,       \* the error run() returned
    exit,         \* "running", "exit0" (os.Exit(0)) or "exit2" (os.Exit(2))
    calls,        \* the calls of the last loop iteration, in order
    lastKind,     \* what the last loop iteration consumed: "event" or "tick"
    lastState,    \* Scene.state when the last loop iteration began
    lastEvent,    \* the event of the last iteration, when it was an event
    failures,     \* TRUE once a render pass has failed
    drawer,       \* the Sdl2Draw: fonts, textures, mainFont, and whether its
                  \* resources have been destroyed
    drawCall,     \* the last call made on the drawer by name: SetMainFont
                  \* or TextureRect, its argument and what it did
    counting,     \* TRUE when the events are being numbered
    obtained,     \* how many events sdl.WaitEvent has returned to the driver
    handled       \* the numbers of the events the loop has handled, in order

vars == <<state, paints, updateable, handleable, loopPc, err, ticker, driverPc,
          driverEv, runErr, exit, calls, lastKind, lastState, lastEvent, failures,
          drawer, drawCall, counting, obtained, handled>>

\* the variables of the scene loop and the driver
sceneVars == <<state, paints, updateable, handleable, loopPc, err, ticker, driverPc,
               driverEv, runErr, exit, calls, lastKind, lastState, lastEvent,
               failures>>

\* ------------------------------------------------------------- scene.New

\* mutant of New: the scene starts in SnakeRunning
New_StartsRunning ==
    [state |-> "SnakeRunning",
     paints |-> [s \in GameState |->
                    CASE s = "MenuScreen" -> <<"menuScreen">>
                      [] s = "SnakeRunning" -> <<"snake", "apple", "score">>
                      [] s = "DeadSnake" -> <<"deadScreen">>]]

New ==
    [state |-> "MenuScreen",
     paints |-> [s \in GameState |->
                    CASE s = "MenuScreen" -> <<"menuScreen">>
                      [] s = "SnakeRunning" -> <<"snake", "apple", "score">>
                      [] s = "DeadSnake" -> <<"deadScreen">>]]

\* ------------------------------------------------------ Scene.handleExit

\* mutant of handleExit: the key state is not looked at
handleExit_IgnoresKeyState(event) ==
    CASE event.type = "QuitEvent" -> TRUE
      [] event.type = "KeyboardEvent" -> event.Sym = K_ESCAPE
      [] OTHER -> FALSE

handleExit(event) ==
    CASE event.type = "QuitEvent" -> TRUE
      [] event.type = "KeyboardEvent" ->
            IF event.State # PRESSED THEN FALSE
            ELSE event.Sym = K_ESCAPE
      [] OTHER -> FALSE

\* --------------------------------------------- Scene.Run, the event branch

RECURSIVE dispatch(_, _, _)
dispatch(objs, i, hnd) ==
    IF i > Len(objs) THEN <<>>
    ELSE IF objs[i] \in hnd
         THEN <<Call("HandleEvent", objs[i], "-")>> \o dispatch(objs, i + 1, hnd)
         ELSE dispatch(objs, i + 1, hnd)

\* mutant of eventBranch: the exit check runs before the dispatch
eventBranch_ExitFirst(ps, st, hnd, e) ==
    LET done == handleExit(e) IN
    [calls |-> <<Call("handleExit", "-", IF done THEN "true" ELSE "false")>>
                  \o (IF done THEN <<Call("os.Exit", "-", "0")>>
                      ELSE dispatch(ps[st], 1, hnd)),
     done |-> done]

\* mutant of eventBranch: the event case falls into a render pass
eventBranch_ThenRender(ps, st, hnd, e) ==
    LET done == handleExit(e) IN
    [calls |-> dispatch(ps[st], 1, hnd)
                  \o <<Call("handleExit", "-", IF done THEN "true" ELSE "false")>>
                  \o (IF done THEN <<Call("os.Exit", "-", "0")>>
                      ELSE <<Call("paint", "-", "ok"), Call("Clear", "-", "ok")>>),
     done |-> done]

\* the calls of the event branch and whether it ends in os.Exit(0)
eventBranch(ps, st, hnd, e) ==
    LET done == handleExit(e) IN
    [calls |-> dispatch(ps[st], 1, hnd)
                  \o <<Call("handleExit", "-", IF done THEN "true" ELSE "false")>>
                  \o (IF done THEN <<Call("os.Exit", "-", "0")>> ELSE <<>>),
     done |-> done]

\* ----------------------------------------------------------- Scene.update

\* mutant of updateLoop: the loop goes on after an object reported another
\* state
RECURSIVE updateLoop_NoBreak(_, _, _, _, _)
updateLoop_NoBreak(objs, i, st, upd, ret) ==
    IF i > Len(objs) THEN [state |-> st, calls |-> <<>>]
    ELSE IF objs[i] \in upd
         THEN LET c == Call("Update", objs[i], ret[objs[i]])
                  r == updateLoop_NoBreak(objs, i + 1, st, upd, ret)
              IN [state |-> IF ret[objs[i]] # st THEN ret[objs[i]] ELSE r.state,
                  calls |-> <<c>> \o r.calls]
         ELSE updateLoop_NoBreak(objs, i + 1, st, upd, ret)

\* ret[o] is what o.Update() returns on this tick
RECURSIVE updateLoop(_, _, _, _, _)
updateLoop(objs, i, st, upd, ret) ==
    IF i > Len(objs) THEN [state |-> st, calls |-> <<>>]
    ELSE IF objs[i] \in upd
         THEN LET c == Call("Update", objs[i], ret[objs[i]]) IN
              IF ret[objs[i]] # st
              THEN [state |-> ret[objs[i]], calls |-> <<c>>]
              ELSE LET r == updateLoop(objs, i + 1, st, upd, ret) IN
                   [state |-> r.state, calls |-> <<c>> \o r.calls]
         ELSE updateLoop(objs, i + 1, st, upd, ret)

\* mutant of update: when no object reported another state the zero value of
\* GameState is returned in place of s.state
update_ReturnsZeroValue(ps, st, upd, ret) ==
    LET r == updateLoop(ps[st], 1, st, upd, ret) IN
    IF r.state = st THEN [state |-> "MenuScreen", calls |-> r.calls] ELSE r

update(ps, st, upd, ret) == updateLoop(ps[st], 1, st, upd, ret)

\* ---------------------------------------------------- Sdl2Draw.Background

\* bg is "ok", "color" (SetDrawColor fails) or "fill" (FillRect fails)
Background(bg) ==
    CASE bg = "color" -> Wrap(<<"sdl">>, "couldn't set color")
      [] bg = "fill" -> Wrap(<<"sdl">>, "couldn't fill rect")
      [] OTHER -> nil

\* ------------------------------------- Sdl2Draw: construction, resources

NewSdl2Draw(font) ==
    [mainFont |-> font, fonts |-> {}, textures |-> {}, destroyed |-> FALSE]

\* every file of the two directories loads
LoadResources(d, fontFiles, textureFiles) ==
    [d EXCEPT !.textures = d.textures \cup textureFiles,
              !.fonts = d.fonts \cup fontFiles]

\* the textures are destroyed and the fonts closed; the map entries stay
destroy(d, ok) ==
    [drawer |-> [d EXCEPT !.destroyed = TRUE],
     err |-> IF ok THEN nil ELSE Wrap(<<"sdl">>, "could not destroy texture")]

\* mutant of SetMainFont: the font is set before it is looked up
SetMainFont_AssignsFirst(d, fontFileName) ==
    IF fontFileName \notin d.fonts
    THEN [drawer |-> [d EXCEPT !.mainFont = fontFileName],
          err |-> <<"font is not loaded", fontFileName>>]
    ELSE [drawer |-> [d EXCEPT !.mainFont = fontFileName], err |-> nil]

SetMainFont(d, fontFileName) ==
    IF fontFileName \notin d.fonts
    THEN [drawer |-> d, err |-> <<"font is not loaded", fontFileName>>]
    ELSE [drawer |-> [d EXCEPT !.mainFont = fontFileName], err |-> nil]

\* copyOk: whether Renderer.Copy succeeds
TextureRect(d, texture, copyOk) ==
    IF texture \notin d.textures
    THEN [copy |-> FALSE, err |-> <<"texture is not found", texture>>]
    ELSE IF ~copyOk
    THEN [copy |-> TRUE, err |-> Wrap(<<"sdl">>, "could not copy texture")]
    ELSE [copy |-> TRUE, err |-> nil]

\* ------------------------------------------------------- Sdl2Draw.Present

\* mutant of Present: the buffer is flipped whatever the render body returns
Present_FlipsAlways(clear, bg, f) ==
    IF ~clear
    THEN [calls |-> <<Call("Clear", "-", "err")>>,
          err |-> Wrap(<<"sdl">>, "could not clear the renderer")]
    ELSE IF Background(bg) # nil
    THEN [calls |-> <<Call("Clear", "-", "ok"), Call("Background", "-", "err")>>,
          err |-> Wrap(Background(bg), "could not set the background")]
    ELSE [calls |-> <<Call("Clear", "-", "ok"), Call("Background", "-", "ok"),
                      Call("renderBody", "-", IF f.err # nil THEN "err" ELSE "ok")>>
                      \o f.calls \o <<Call("Flip", "-", "ok")>>,
          err |-> IF f.err # nil
                  THEN Wrap(f.err, "could not execute user given function")
                  ELSE nil]

\* clear: whether Renderer.Clear succeeds; f: the calls and the error of the
\* render body, used only where the code invokes it
Present(clear, bg, f) ==
    IF ~clear
    THEN [calls |-> <<Call("Clear", "-", "err")>>,
          err |-> Wrap(<<"sdl">>, "could not clear the renderer")]
    ELSE IF Background(bg) # nil
    THEN [calls |-> <<Call("Clear", "-", "ok"), Call("Background", "-", "err")>>,
          err |-> Wrap(Background(bg), "could not set the background")]
    ELSE IF f.err # nil
    THEN [calls |-> <<Call("Clear", "-", "ok"), Call("Background", "-", "ok"),
                      Call("renderBody", "-", "err")>> \o f.calls,
          err |-> Wrap(f.err, "could not execute user given function")]
    ELSE [calls |-> <<Call("Clear", "-", "ok"), Call("Background", "-", "ok"),
                      Call("renderBody", "-", "ok")>> \o f.calls
                      \o <<Call("Flip", "-", "ok")>>,
          err |-> nil]

\* ------------------------------------------------------------ Scene.paint

\* mutant of paintLoop: the loop goes on after a failed Paint and returns
\* the first error
RECURSIVE paintLoop_ContinuesAfterError(_, _, _)
paintLoop_ContinuesAfterError(objs, i, pok) ==
    IF i > Len(objs) THEN [calls |-> <<>>, err |-> nil]
    ELSE LET r == paintLoop_ContinuesAfterError(objs, i + 1, pok) IN
         IF ~pok[objs[i]]
         THEN [calls |-> <<Call("Paint", objs[i], "err")>> \o r.calls,
               err |-> Wrap(<<objs[i]>>, "failed to paint")]
         ELSE [calls |-> <<Call("Paint", objs[i], "ok")>> \o r.calls, err |-> r.err]

\* pok[o] is whether o.Paint(drawer) succeeds on this frame
RECURSIVE paintLoop(_, _, _)
paintLoop(objs, i, pok) ==
    IF i > Len(objs) THEN [calls |-> <<>>, err |-> nil]
    ELSE IF ~pok[objs[i]]
         THEN [calls |-> <<Call("Paint", objs[i], "err")>>,
               err |-> Wrap(<<objs[i]>>, "failed to paint")]
         ELSE LET r == paintLoop(objs, i + 1, pok) IN
              [calls |-> <<Call("Paint", objs[i], "ok")>> \o r.calls, err |-> r.err]

paint(ps, st, clear, bg, pok) ==
    LET r == Present(clear, bg, paintLoop(ps[st], 1, pok)) IN
    [calls |-> <<Call("paint", "-", IF r.err # nil THEN "err" ELSE "ok")>> \o r.calls,
     err |-> IF r.err # nil THEN Wrap(r.err, "failed to present") ELSE nil]

\* ---------------------------------------------- Scene.Run, the tick branch

\* mutant of tickBranch: a failed render pass puts the old state back
tickBranch_RevertOnError(ps, st, upd, ret, clear, bg, pok) ==
    LET u == update(ps, st, upd, ret)
        p == paint(ps, u.state, clear, bg, pok)
    IN [state |-> IF p.err # nil THEN st ELSE u.state,
        calls |-> u.calls \o p.calls, err |-> p.err]

\* mutant of tickBranch: a tick that changes the state does not render
tickBranch_SkipsPaintOnTransition(ps, st, upd, ret, clear, bg, pok) ==
    LET u == update(ps, st, upd, ret)
        p == paint(ps, u.state, clear, bg, pok)
    IN IF u.state # st
       THEN [state |-> u.state, calls |-> u.calls, err |-> nil]
       ELSE [state |-> u.state, calls |-> u.calls \o p.calls, err |-> p.err]

\* mutant of tickBranch: the render pass paints the active set of the state
\* the tick began in
tickBranch_PaintsOldState(ps, st, upd, ret, clear, bg, pok) ==
    LET u == update(ps, st, upd, ret)
        pk == [o \in Objects |-> IF o \in DOMAIN pok THEN pok[o] ELSE TRUE]
        p == paint(ps, st, clear, bg, pk)
    IN [state |-> u.state, calls |-> u.calls \o p.calls, err |-> p.err]

tickBranch(ps, st, upd, ret, clear, bg, pok) ==
    LET u == update(ps, st, upd, ret)
        p == paint(ps, u.state, clear, bg, pok)
    IN [state |-> u.state, calls |-> u.calls \o p.calls, err |-> p.err]

\* ------------------------------------------------------------------- Init

InitScene ==
    /\ state = New.state
    /\ paints = New.paints
    /\ updateable \in UpdateableSets
    /\ handleable \in HandleableSets
    /\ loopPc = "select"
    /\ err = nil
    /\ ticker = FALSE
    /\ driverPc = "wait"
    /\ driverEv = NoEvent
    /\ runErr = nil
    /\ exit = "running"
    /\ calls = <<>>
    /\ lastKind = "none"
    /\ lastState = New.state
    /\ lastEvent = NoEvent
    /\ failures = FALSE

\* main.run up to s.Run(events): the drawer is built, the resources are loaded
Init ==
    /\ InitScene
    /\ drawer = LoadResources(NewSdl2Draw(FontUbuntu), FontNames, TextureNames)
    /\ drawCall = NoDrawCall
    /\ counting = FALSE
    /\ obtained = 0
    /\ handled = <<>>

\* ---------------------------------------------------------------- actions

\* time.Tick: the runtime puts a tick in the ticker channel (capacity 1)
Tick ==
    /\ exit = "running"
    /\ ~ticker
    /\ ticker' = TRUE
    /\ UNCHANGED <<state, paints, updateable, handleable, loopPc, err, driverPc,
                   driverEv, runErr, exit, calls, lastKind, lastState, lastEvent,
                   failures>>
    /\ UNCHANGED <<drawer, drawCall, counting, obtained, handled>>

\* mutant of WaitEvent: an event the loop has not taken yet is dropped for
\* the next one
WaitEvent_DropsUnsent ==
    /\ exit = "running"
    /\ driverPc \in {"wait", "select"}
    /\ counting => obtained < MaxEvents
    /\ \E e \in Events : driverEv' = e
    /\ driverPc' = "select"
    /\ obtained' = IF counting THEN obtained + 1 ELSE obtained
    /\ UNCHANGED <<state, paints, updateable, handleable, loopPc, err, ticker,
                   runErr, exit, calls, lastKind, lastState, lastEvent, failures>>
    /\ UNCHANGED <<drawer, drawCall, counting, handled>>

\* main.run: sdl.WaitEvent() returns, the driver enters its select
WaitEvent ==
    /\ exit = "running"
    /\ driverPc = "wait"
    /\ counting => obtained < MaxEvents
    /\ \E e \in Events : driverEv' = e
    /\ driverPc' = "select"
    /\ obtained' = IF counting THEN obtained + 1 ELSE obtained
    /\ UNCHANGED <<state, paints, updateable, handleable, loopPc, err, ticker,
                   runErr, exit, calls, lastKind, lastState, lastEvent, failures>>
    /\ UNCHANGED <<drawer, drawCall, counting, handled>>

\* Scene.Run, case e := <-events: the driver's send meets the loop's receive
LoopEvent ==
    /\ exit = "running"
    /\ loopPc = "select"
    /\ driverPc = "select"
    /\ LET r == eventBranch(paints, state, handleable, driverEv) IN
        /\ calls' = r.calls
        /\ exit' = IF r.done THEN "exit0" ELSE "running"
    /\ lastKind' = "event"
    /\ lastState' = state
    /\ lastEvent' = driverEv
    /\ driverPc' = "wait"
    /\ driverEv' = NoEvent
    /\ handled' = IF counting THEN Append(handled, obtained) ELSE handled
    /\ UNCHANGED <<state, paints, updateable, handleable, loopPc, err, ticker,
                   runErr, failures>>
    /\ UNCHANGED <<drawer, drawCall, counting, obtained>>

\* mutant of LoopTick: entering SnakeRunning rebuilds its objects
LoopTick_RebuildsOnRestart ==
    /\ exit = "running"
    /\ loopPc = "select"
    /\ ticker
    /\ \E ret \in [Range(paints[state]) -> GameState] :
        LET u == update(paints, state, updateable, ret) IN
        \E clear \in BOOLEAN, bg \in {"ok", "color", "fill"},
           pok \in [Range(paints[u.state]) -> BOOLEAN] :
            LET r == tickBranch(paints, state, updateable, ret, clear, bg, pok) IN
            /\ state' = r.state
            /\ calls' = r.calls
            /\ err' = r.err
            /\ loopPc' = IF r.err # nil THEN "send" ELSE "select"
            /\ failures' = (failures \/ r.err # nil)
            /\ paints' = IF r.state = "SnakeRunning" /\ state # "SnakeRunning"
                         THEN [paints EXCEPT !["SnakeRunning"] = <<"snake", "apple">>]
                         ELSE paints
    /\ ticker' = FALSE
    /\ lastKind' = "tick"
    /\ lastState' = state
    /\ lastEvent' = NoEvent
    /\ UNCHANGED <<updateable, handleable, driverPc, driverEv, runErr, exit>>
    /\ UNCHANGED <<drawer, drawCall, counting, obtained, handled>>

\* Scene.Run, case <-ticker
LoopTick ==
    /\ exit = "running"
    /\ loopPc = "select"
    /\ ticker
    /\ \E ret \in [Range(paints[state]) -> GameState] :
        LET u == update(paints, state, updateable, ret) IN
        \E clear \in BOOLEAN, bg \in {"ok", "color", "fill"},
           pok \in [Range(paints[u.state]) -> BOOLEAN] :
            LET r == tickBranch(paints, state, updateable, ret, clear, bg, pok) IN
            /\ state' = r.state
            /\ calls' = r.calls
            /\ err' = r.err
            /\ loopPc' = IF r.err # nil THEN "send" ELSE "select"
            /\ failures' = (failures \/ r.err # nil)
    /\ ticker' = FALSE
    /\ lastKind' = "tick"
    /\ lastState' = state
    /\ lastEvent' = NoEvent
    /\ UNCHANGED <<paints, updateable, handleable, driverPc, driverEv, runErr, exit>>
    /\ UNCHANGED <<drawer, drawCall, counting, obtained, handled>>

\* mutant of ErrHandoff: the driver receives from errc only when it has no
\* event to send
ErrHandoff_OnlyWithoutEvent ==
    /\ exit = "running"
    /\ loopPc = "send"
    /\ driverPc = "select"
    /\ driverEv = NoEvent
    /\ runErr' = err
    /\ driverPc' = "returned"
    /\ driverEv' = NoEvent
    /\ loopPc' = "select"
    /\ err' = nil
    /\ UNCHANGED <<state, paints, updateable, handleable, ticker, exit, calls,
                   lastKind, lastState, lastEvent, failures>>
    /\ UNCHANGED <<drawer, drawCall, counting, obtained, handled>>

\* errc <- err meets the driver's case err := <-errc; run returns err
ErrHandoff ==
    /\ exit = "running"
    /\ loopPc = "send"
    /\ driverPc = "select"
    /\ runErr' = err
    /\ driverPc' = "returned"
    /\ driverEv' = NoEvent
    /\ loopPc' = "select"
    /\ err' = nil
    /\ UNCHANGED <<state, paints, updateable, handleable, ticker, exit, calls,
                   lastKind, lastState, lastEvent, failures>>
    /\ UNCHANGED <<drawer, drawCall, counting, obtained, handled>>

\* main.run returns: the deferred free() destroys the drawer's resources,
\* then the deferred destroy() tears SDL down; a failure of either replaces
\* the error run returns.  The loop task is still running.
Deferred ==
    /\ exit = "running"
    /\ driverPc = "returned"
    /\ ~drawer.destroyed
    /\ \E freeOk \in BOOLEAN, destroyOk \in BOOLEAN :
        LET r == destroy(drawer, freeOk) IN
        /\ drawer' = r.drawer
        /\ runErr' = IF ~destroyOk THEN Wrap(<<"sdl">>, "could not destroy sdl2")
                      ELSE IF r.err # nil THEN Wrap(r.err, "could not free resources")
                      ELSE runErr
    /\ UNCHANGED <<state, paints, updateable, handleable, loopPc, err, ticker,
                   driverPc, driverEv, exit, calls, lastKind, lastState,
                   lastEvent, failures, drawCall, counting, obtained, handled>>

\* the loop task starts a render pass on a drawer whose textures and fonts
\* have been destroyed: besides the outcomes of LoopTick, the use of the
\* dangling resources can end the process
UseAfterDestroy ==
    /\ exit = "running"
    /\ loopPc = "select"
    /\ ticker
    /\ drawer.destroyed
    /\ exit' = "fault"
    /\ UNCHANGED <<state, paints, updateable, handleable, loopPc, err, ticker,
                   driverPc, driverEv, runErr, calls, lastKind, lastState,
                   lastEvent, failures, drawer, drawCall, counting, obtained,
                   handled>>

\* main: run returned an error, os.Exit(2)
MainExit ==
    /\ exit = "running"
    /\ driverPc = "returned"
    /\ drawer.destroyed
    /\ exit' = "exit2"
    /\ UNCHANGED <<state, paints, updateable, handleable, loopPc, err, ticker,
                   driverPc, driverEv, runErr, calls, lastKind, lastState,
                   lastEvent, failures>>
    /\ UNCHANGED <<drawer, drawCall, counting, obtained, handled>>

Next ==
    \/ Tick
    \/ WaitEvent
    \/ LoopEvent
    \/ LoopTick
    \/ ErrHandoff
    \/ Deferred
    \/ UseAfterDestroy
    \/ MainExit

Spec == Init /\ [][Next]_vars

\* the same program with the events numbered, for the first MaxEvents events
OrderInit ==
    /\ InitScene
    /\ drawer = LoadResources(NewSdl2Draw(FontUbuntu), FontNames, TextureNames)
    /\ drawCall = NoDrawCall
    /\ counting = TRUE
    /\ obtained = 0
    /\ handled = <<>>

OrderSpec == OrderInit /\ [][Next]_vars

\* ------------------------------------------- the drawer's calls by name

\* a drawer with any main font and any of the files loaded
DrawInit ==
    /\ InitScene
    /\ \E font \in FontNames, fontFiles \in SUBSET FontNames,
          textureFiles \in SUBSET TextureNames :
        drawer = LoadResources(NewSdl2Draw(font), fontFiles, textureFiles)
    /\ drawCall = NoDrawCall
    /\ counting = FALSE
    /\ obtained = 0
    /\ handled = <<>>

SetMainFontCall ==
    \E fontFileName \in FontNames :
        LET r == SetMainFont(drawer, fontFileName) IN
        /\ drawer' = r.drawer
        /\ drawCall' = [op |-> "SetMainFont", arg |-> fontFileName, err |-> r.err,
                        copy |-> FALSE]
        /\ UNCHANGED <<sceneVars, counting, obtained, handled>>

TextureRectCall ==
    \E texture \in TextureNames, copyOk \in BOOLEAN :
        LET r == TextureRect(drawer, texture, copyOk) IN
        /\ drawCall' = [op |-> "TextureRect", arg |-> texture, err |-> r.err,
                        copy |-> r.copy]
        /\ UNCHANGED <<sceneVars, drawer, counting, obtained, handled>>

DrawNext ==
    \/ SetMainFontCall
    \/ TextureRectCall

DrawSpec == DrawInit /\ [][DrawNext]_vars

\* The Go runtime runs every goroutine that can take a step, delivers timer
\* ticks and completes a rendezvous both sides are waiting in.  When
\* sdl.WaitEvent returns is up to the user, so WaitEvent carries no fairness.
FairSpec ==
    /\ Spec
    /\ WF_vars(Tick)
    /\ WF_vars(LoopTick)
    /\ WF_vars(LoopEvent)
    /\ WF_vars(ErrHandoff)
    /\ WF_vars(MainExit)

\* ----------------------------------------------------------------- claims

\* the step in which the loop task receives from the events channel
EventTaken == driverPc = "select" /\ driverPc' = "wait"

\* the step in which the loop task receives from the ticker channel
TickTaken == ticker /\ ~ticker'

\* C1: on a tick in state S the Update calls go to the updateable objects of
\* S's active set in registry order, each at most once; every call but the
\* last returned S; when the last call returned a state other than S the
\* scene adopted it and no later object was updated; otherwise every
\* updateable object of the active set was updated once and the state is S.
C1_UpdateShortCircuits ==
    lastKind = "tick" =>
        LET U == SelectSeq(calls, LAMBDA c : c.op = "Update")
            A == SelectSeq(paints[lastState], LAMBDA o : o \in updateable)
            n == Len(U)
        IN /\ n <= Len(A)
           /\ \A i \in 1..n : U[i].obj = A[i]
           /\ \A i \in 1..(n - 1) : U[i].res = lastState
           /\ IF n > 0 /\ U[n].res # lastState
              THEN state = U[n].res
              ELSE n = Len(A) /\ state = lastState

\* C1 witness: a tick in SnakeRunning whose first Update reported another
\* state while a later updateable object of the active set was left alone.
C1_Witness ==
    /\ lastKind = "tick"
    /\ lastState = "SnakeRunning"
    /\ {"snake", "apple", "score"} \subseteq updateable
    /\ Len(SelectSeq(calls, LAMBDA c : c.op = "Update")) = 1
    /\ state = "DeadSnake"

\* C2: a fresh scene is in MenuScreen, and a step leaves MenuScreen only as
\* a tick on which an object of the MenuScreen active set returned another
\* state from Update.
C2_StartsAndStaysInMenu ==
    /\ state = "MenuScreen"
    /\ [][(state = "MenuScreen" /\ state' # "MenuScreen") =>
            /\ TickTaken
            /\ \E i \in DOMAIN calls' :
                /\ calls'[i].op = "Update"
                /\ calls'[i].obj \in Range(paints["MenuScreen"])
                /\ calls'[i].res # "MenuScreen"]_vars

\* C2 witness: the scene has left MenuScreen on a tick.
C2_Witness ==
    /\ lastKind = "tick"
    /\ lastState = "MenuScreen"
    /\ state = "SnakeRunning"

\* C3: Scene.state changes only in a step that consumes a tick, and then to
\* the value returned by the last Update call of that tick, made on an
\* object of the active set of the state the tick began in; a step that
\* hands an event to the loop leaves Scene.state unchanged, and the render
\* pass of the tick leaves the updated state unchanged.
C3_StateMutatedOnlyByTick ==
    [][/\ EventTaken => state' = state
       /\ state' # state =>
            /\ TickTaken
            /\ ~EventTaken
            /\ LET U == SelectSeq(calls', LAMBDA c : c.op = "Update") IN
                /\ Len(U) > 0
                /\ U[Len(U)].res = state'
                /\ U[Len(U)].obj \in Range(paints[state])
                /\ U[Len(U)].obj \in updateable
       /\ TickTaken =>
            LET U == SelectSeq(calls', LAMBDA c : c.op = "Update") IN
            state' = IF Len(U) > 0 THEN U[Len(U)].res ELSE state]_vars

\* C3 witness: ticks have taken the scene to DeadSnake, and an event was then
\* dispatched to a handler there.
C3_Witness ==
    /\ lastKind = "event"
    /\ state = "DeadSnake"
    /\ exit = "running"
    /\ \E i \in DOMAIN calls : calls[i].op = "HandleEvent"

\* C4: a step of the loop consumes an event or a tick, never both; the
\* iteration of an event makes no Update call and no call of the render
\* pass, the iteration of a tick makes no HandleEvent call and no exit check.
C4_OneWorkItemPerIteration ==
    [][/\ ~(EventTaken /\ TickTaken)
       /\ EventTaken =>
            /\ lastKind' = "event"
            /\ \A i \in DOMAIN calls' :
                calls'[i].op \in {"HandleEvent", "handleExit", "os.Exit"}
       /\ TickTaken =>
            /\ lastKind' = "tick"
            /\ \A i \in DOMAIN calls' :
                calls'[i].op \notin {"HandleEvent", "handleExit", "os.Exit"}]_vars

\* C4 witness: an event was handled while a tick was pending, and the tick
\* is still pending.
C4_Witness ==
    /\ lastKind = "event"
    /\ ticker
    /\ exit = "running"
    /\ Len(calls) > 1

\* C5: the step that hands an event to the loop ends the process with
\* os.Exit(0) exactly when the event is a QuitEvent or a KeyboardEvent for
\* K_ESCAPE in state PRESSED, whatever the game state; no other step ends
\* the process with status 0, and handling an event produces no error.
C5_ExitIffQuitOrEscapePressed ==
    [][/\ EventTaken =>
            /\ exit' = "exit0" <=>
                  \/ driverEv.type = "QuitEvent"
                  \/ /\ driverEv.type = "KeyboardEvent"
                     /\ driverEv.Sym = K_ESCAPE
                     /\ driverEv.State = PRESSED
            /\ exit' \in {"exit0", "running"}
            /\ err' = err /\ loopPc' = loopPc /\ runErr' = runErr
       /\ (exit' = "exit0" /\ exit # "exit0") => EventTaken]_vars

\* C5 witness: Escape was released in DeadSnake and the process runs on.
C5_Witness ==
    /\ lastKind = "event"
    /\ lastEvent = KeyboardEvent(RELEASED, K_ESCAPE)
    /\ state = "DeadSnake"
    /\ exit = "running"

\* C6: the iteration of an event calls HandleEvent once on each handleable
\* object of the current state's active set, in registry order, and on no
\* other object, and the exit check comes after the last of these calls.
C6_DispatchThenExitCheck ==
    lastKind = "event" =>
        LET H == SelectSeq(paints[state], LAMBDA o : o \in handleable)
            n == Len(H)
        IN /\ lastState = state
           /\ Len(calls) > n
           /\ \A i \in 1..n : calls[i] = Call("HandleEvent", H[i], "-")
           /\ calls[n + 1].op = "handleExit"
           /\ \A i \in (n + 1)..Len(calls) : calls[i].op # "HandleEvent"

\* C6 witness: an event that ended the process in SnakeRunning had been
\* delivered to three handlers.
C6_Witness ==
    /\ lastKind = "event"
    /\ exit = "exit0"
    /\ state = "SnakeRunning"
    /\ Len(SelectSeq(calls, LAMBDA c : c.op = "HandleEvent")) = 3

\* C7: the iteration of a tick makes exactly one render pass, after its last
\* Update call.
C7_OneRenderPassPerTick ==
    lastKind = "tick" =>
        /\ Cardinality({i \in DOMAIN calls : calls[i].op = "paint"}) = 1
        /\ \A i, j \in DOMAIN calls :
            (calls[i].op = "Update" /\ calls[j].op = "paint") => i < j
        /\ Cardinality({i \in DOMAIN calls : calls[i].op = "Clear"}) = 1

\* C7 witness: a tick that changed the state and rendered, after an earlier
\* frame had failed.
C7_Witness ==
    /\ lastKind = "tick"
    /\ failures
    /\ state # lastState
    /\ Call("paint", "-", "ok") \in Range(calls)

\* C8: in the render pass of a tick the Paint calls go to the objects of the
\* active set in registry order; a failed Paint is the last Paint of the
\* frame and the pass returns the wrapped error; the pass returns no error
\* only if every object of the active set was painted successfully and the
\* Present transaction succeeded.
C8_FirstPaintFailureAbortsFrame ==
    lastKind = "tick" =>
        LET P == SelectSeq(calls, LAMBDA c : c.op = "Paint")
            A == paints[state]
            n == Len(P)
        IN /\ n <= Len(A)
           /\ \A i \in 1..n : P[i].obj = A[i]
           /\ \A i \in 1..(n - 1) : P[i].res = "ok"
           /\ (n > 0 /\ P[n].res = "err") =>
                /\ Call("paint", "-", "err") \in Range(calls)
                /\ loopPc = "send" =>
                     err = <<"failed to present", "could not execute user given function",
                             "failed to paint", P[n].obj>>
           /\ Call("paint", "-", "ok") \in Range(calls) =>
                /\ n = Len(A)
                /\ \A i \in 1..n : P[i].res = "ok"
                /\ Call("Clear", "-", "ok") \in Range(calls)
                /\ Call("Background", "-", "ok") \in Range(calls)
                /\ Call("Flip", "-", "ok") \in Range(calls)
           /\ (Call("paint", "-", "err") \in Range(calls) /\ runErr = nil) =>
                (loopPc = "send" /\ err # nil)

\* C8 witness: in SnakeRunning the snake was painted, the apple's Paint
\* failed and the score was not painted.
C8_Witness ==
    /\ lastKind = "tick"
    /\ state = "SnakeRunning"
    /\ SelectSeq(calls, LAMBDA c : c.op = "Paint")
          = <<Call("Paint", "snake", "ok"), Call("Paint", "apple", "err")>>

\* C9: Present runs clear, background, render body, flip in that order; the
\* flip happens only after all three succeeded; when clear or background
\* fails the render body is not invoked and nothing is painted; a failure
\* makes the pass return an error and leaves the buffer unflipped.
C9_PresentTransaction ==
    lastKind = "tick" =>
        LET T == SelectSeq(calls,
                    LAMBDA c : c.op \in {"Clear", "Background", "renderBody", "Flip"})
            failed == \E i \in DOMAIN calls :
                        calls[i].op \in {"Clear", "Background", "renderBody", "Paint"}
                            /\ calls[i].res = "err"
            flipped == \E i \in DOMAIN calls : calls[i].op = "Flip"
        IN /\ \A i \in DOMAIN T :
                T[i].op = <<"Clear", "Background", "renderBody", "Flip">>[i]
           /\ Len(T) >= 1 /\ Len(T) <= 4
           /\ \A i \in 1..(Len(T) - 1) : T[i].res = "ok"
           /\ flipped <=> ~failed
           /\ flipped => calls[Len(calls)].op = "Flip"
           /\ (Call("Clear", "-", "err") \in Range(calls)
                 \/ Call("Background", "-", "err") \in Range(calls)) =>
                \A i \in DOMAIN calls : calls[i].op \notin {"renderBody", "Paint"}
           /\ \A i, j \in DOMAIN calls :
                (calls[i].op = "renderBody" /\ calls[j].op = "Paint") => i < j
           /\ failed <=> Call("paint", "-", "err") \in Range(calls)

\* C9 witness: the background failed after a successful clear.
C9_Witness ==
    /\ lastKind = "tick"
    /\ Call("Clear", "-", "ok") \in Range(calls)
    /\ Call("Background", "-", "err") \in Range(calls)
    /\ loopPc = "send"

\* C10: a failed render pass leaves the loop offering its error on errc, the
\* driver eventually receives it and returns that very error, after which it
\* forwards no event; the failed frame is not rendered a second time.
C10_FailedRenderReachesDriver ==
    /\ (loopPc = "send") ~> (driverPc = "returned" /\ runErr # nil)
    /\ [][/\ (loopPc = "send" /\ loopPc' # "send") => (runErr' = err /\ driverPc' = "returned")
          /\ driverPc = "returned" => ~EventTaken
          /\ loopPc = "send" => calls' = calls]_vars

\* C11: whenever the loop task is suspended it is suspended in its select:
\* it is never blocked holding a render error it has not delivered.
C11_LoopSuspendsOnlyAtSelect ==
    exit = "running" => (loopPc = "select" /\ err = nil)

\* C13: a tick that is pending while the process runs is eventually taken by
\* the loop (or the process ends first).
C13_TickEventuallyProcessed ==
    (ticker /\ exit = "running") ~> (~ticker \/ exit # "running")

\* C15: the paints registry is the one New built, in every reachable state,
\* and no step changes it.
C15_PaintsRegistryFixed ==
    /\ paints = New.paints
    /\ paints["MenuScreen"] = <<"menuScreen">>
    /\ paints["SnakeRunning"] = <<"snake", "apple", "score">>
    /\ paints["DeadSnake"] = <<"deadScreen">>

\* C15 witness: the scene went from DeadSnake back to SnakeRunning.
C15_Witness ==
    /\ lastKind = "tick"
    /\ lastState = "DeadSnake"
    /\ state = "SnakeRunning"

\* C16: a step leaves DeadSnake only as a tick on which the dead screen's
\* Update returned another state; when the dead screen has no Update, no
\* step leaves DeadSnake.
C16_DeadIsAbsorbing ==
    [][/\ (state = "DeadSnake" /\ state' # "DeadSnake") =>
            /\ TickTaken
            /\ "deadScreen" \in updateable
            /\ Call("Update", "deadScreen", state') \in Range(calls')
       /\ (state = "DeadSnake" /\ "deadScreen" \notin updateable) =>
            state' = "DeadSnake"]_vars

\* C16 witness: a tick was processed in DeadSnake with a dead screen that
\* has no Update, and the scene is still in DeadSnake.
C16_Witness ==
    /\ lastKind = "tick"
    /\ lastState = "DeadSnake"
    /\ state = "DeadSnake"
    /\ "deadScreen" \notin updateable

\* C17: on a tick that changes the state from S to T every Paint call of the
\* render pass goes to an object of T's active set, beginning with its first
\* object, and every Update call of the tick went to an object of S's active
\* set, none to an object of T's.
C17_TransitionFramePaintsNewState ==
    (lastKind = "tick" /\ state # lastState) =>
        LET P == SelectSeq(calls, LAMBDA c : c.op = "Paint")
            U == SelectSeq(calls, LAMBDA c : c.op = "Update")
        IN /\ \A i \in DOMAIN P : P[i].obj = paints[state][i]
           /\ (\E i \in DOMAIN calls : calls[i].op = "renderBody") => Len(P) >= 1
           /\ \A i \in DOMAIN U :
                /\ U[i].obj \in Range(paints[lastState])
                /\ U[i].obj \notin Range(paints[state])

\* C17 witness: the tick that took the scene from MenuScreen to SnakeRunning
\* painted the snake, the apple and the score, and the snake is updateable.
C17_Witness ==
    /\ lastKind = "tick"
    /\ lastState = "MenuScreen"
    /\ state = "SnakeRunning"
    /\ "snake" \in updateable
    /\ Len(SelectSeq(calls, LAMBDA c : c.op = "Paint")) = 3
    /\ Call("Flip", "-", "ok") \in Range(calls)

\* C18 as stated: with the loop blocked in its error send and the driver
\* in its select, the error receive can go ahead; a driver offering an event
\* to a loop that is in its select eventually has the event received by the
\* loop; a loop blocked in the error send takes no tick and no event.
C18_EventEventuallyReceived ==
    /\ []((loopPc = "send" /\ driverPc = "select" /\ exit = "running")
            => ENABLED ErrHandoff)
    /\ (driverPc = "select" /\ loopPc = "select" /\ exit = "running")
            ~> (driverPc = "wait")
    /\ [][loopPc = "send" => (~TickTaken /\ ~EventTaken)]_vars

\* C18 amended: as above, but the driver's offer ends either with the loop
\* receiving the event or, when a render pass fails first, with the driver
\* receiving the error and the event being dropped.
C18_NoChannelDeadlock ==
    /\ []((loopPc = "send" /\ driverPc = "select" /\ exit = "running")
            => ENABLED ErrHandoff)
    /\ (driverPc = "select" /\ loopPc = "select" /\ exit = "running")
            ~> (driverPc = "wait" \/ driverPc = "returned")
    /\ [][loopPc = "send" => (~TickTaken /\ ~EventTaken)]_vars

\* C18 witness: the loop is blocked in the error send while the driver
\* holds an event and a tick is pending.
C18_Witness ==
    /\ loopPc = "send"
    /\ driverPc = "select"
    /\ driverEv # NoEvent
    /\ ticker
    /\ exit = "running"

\* C12: the scene's state, its objects and the drawer are touched only in
\* iterations of the loop task; the driver's steps touch none of them.
C12_OnlyLoopTouchesSceneState ==
    [][(state' # state \/ paints' # paints \/ calls' # calls \/ drawer' # drawer)
          => (TickTaken \/ EventTaken)]_vars

\* C14: the loop handles the events in the order the driver obtained them,
\* each once: the numbers of the handled events are 1, 2, 3, ... with no gap
\* and no repeat, at most the last obtained event is not handled yet, and
\* the event handled in a handoff is the event the driver held.
C14_EventsHandledInArrivalOrder ==
    /\ [](/\ \A i \in DOMAIN handled : handled[i] = i
          /\ Len(handled) \in {obtained - 1, obtained}
          /\ driverPc = "wait" => Len(handled) = obtained)
    /\ [][EventTaken =>
            /\ lastEvent' = driverEv
            /\ handled' = Append(handled, obtained)
            /\ Len(handled') = obtained]_vars

\* C14 witness: three events have been obtained and handled, the last one a
\* key press.
C14_Witness ==
    /\ counting
    /\ handled = <<1, 2, 3>>
    /\ lastKind = "event"
    /\ lastEvent = KeyboardEvent(PRESSED, K_SPACE)

\* C19: SetMainFont(name) returns no error and makes name the main font
\* exactly when name is a loaded font; otherwise it returns an error and
\* leaves the drawer as it was; it never changes the font and texture
\* tables.  TextureRect with a texture that is not loaded returns an error
\* and issues no Copy.
C19_UnknownNamesAreRejected ==
    [][/\ drawCall'.op = "SetMainFont" =>
            /\ drawCall'.err = nil <=> drawCall'.arg \in drawer.fonts
            /\ drawCall'.arg \in drawer.fonts => drawer'.mainFont = drawCall'.arg
            /\ drawCall'.arg \notin drawer.fonts => drawer' = drawer
            /\ drawer'.fonts = drawer.fonts
            /\ drawer'.textures = drawer.textures
       /\ drawCall'.op = "TextureRect" =>
            /\ drawer' = drawer
            /\ drawCall'.arg \notin drawer.textures =>
                  (drawCall'.err # nil /\ ~drawCall'.copy)
            /\ drawCall'.arg \in drawer.textures => drawCall'.copy]_vars

\* C19 witness: SetMainFont was refused for a font that is not loaded and
\* the main font is another one.
C19_Witness ==
    /\ drawCall.op = "SetMainFont"
    /\ drawCall.err # nil
    /\ drawCall.arg \notin drawer.fonts
    /\ drawer.mainFont # drawCall.arg

====
